---------------------------- MODULE Spec2Model ----------------------------
(***************************************************************************)
(* arXiv CS Daily: the list page (loadPapersForToday, parseArxivResponse,  *)
(* renderPaperList, filterByCategory, getSamplePapers) and the detail page *)
(* (fetchPaperDetails, displaySamplePaperDetails, the citation buttons).   *)
(*                                                                         *)
(* Text is a sequence of chunks: every character an operation of the code  *)
(* looks at ("/" for split('/'), " " for split(' ') and trim(), the "cs."  *)
(* prefix for startsWith('cs.')) is a chunk of its own, the text between   *)
(* them is one chunk each.  '' is << >>.                                   *)
(* An optional DOM node or attribute is None (absent) or Some(value).      *)
(***************************************************************************)
EXTENDS Integers, Sequences, FiniteSets, TLC

VARIABLES
    page,             \* the document loaded: "list", "detail" or "none"
    outcome,          \* environment: how intermediary 1..NumProxies answers
    sampleFile,       \* environment: what data/sample-papers.json yields
    paperId,          \* detail page: the id of the URL
    pc,               \* the await the page's async function is suspended at:
                      \* "fetch" (an intermediary), "text" (response.text()),
                      \* "sample" (the asset), "json" (response.json()),
                      \* or "start" / "done" / "failed" (the function
                      \* rejected)
    i,                \* loop variable of the proxy loop (1-based here)
    data,             \* `let data`: None (undefined) or Some(body)
    lastError,        \* `let lastError`
    requests,         \* the requests issued to the intermediaries, in order
    caught,           \* the error the outer catch received, None if none
    currentCategory,  \* list page global
    papersData,       \* list page global
    container,        \* #papers-container
    loading,          \* #loading-indicator shown
    detail,           \* #paper-detail
    cite,             \* what setupCitationButtons captured, None before
    clipboard,        \* the texts copied, latest last
    xmlText,          \* normalizer run: the document given
    parsed,           \* normalizer run: None, or Some(outcome of the call)
    timeZone          \* environment: the time zone of the browser

vars == <<page, outcome, sampleFile, paperId, pc, i, data, lastError, requests,
          caught, currentCategory, papersData, container, loading, detail,
          cite, clipboard, xmlText, parsed, timeZone>>

pageVars == <<page, outcome, sampleFile, paperId, pc, i, data, lastError,
              requests, caught, currentCategory, papersData, container,
              loading, detail, cite, clipboard, timeZone>>

None == << >>
Some(x) == <<x>>

(***************************************************************************)
(* Bounds of the model.                                                    *)
(***************************************************************************)
\* entries of a document given to the normalizer run
MaxEntries == 2
\* texts the clipboard log keeps (clicks on the citation buttons)
MaxClicks == 3
\* the longest author list a citation run is given
MaxAuthors == 2

(***************************************************************************)
(* String operations, on chunk sequences.                                  *)
(***************************************************************************)
RECURSIVE SplitAcc(_, _, _, _)
SplitAcc(s, sep, cur, acc) ==
    IF s = << >> THEN Append(acc, cur)
    ELSE IF Head(s) = sep THEN SplitAcc(Tail(s), sep, << >>, Append(acc, cur))
    ELSE SplitAcc(Tail(s), sep, Append(cur, Head(s)), acc)

\* String.prototype.split(sep): ''.split(sep) is ['']
Split(s, sep) == SplitAcc(s, sep, << >>, << >>)

\* Array.prototype.shift(), the value returned
Shift(parts) == parts[1]
\* Array.prototype.pop(): the value returned, and the array left
Pop(parts) == parts[Len(parts)]
Front(parts) == SubSeq(parts, 1, Len(parts) - 1)

RECURSIVE Join(_, _)
\* Array.prototype.join(sep), sep a chunk sequence
Join(parts, sep) ==
    IF parts = << >> THEN << >>
    ELSE IF Len(parts) = 1 THEN parts[1]
    ELSE parts[1] \o sep \o Join(Tail(parts), sep)

RECURSIVE TrimStart(_)
TrimStart(s) == IF s # << >> /\ Head(s) = " " THEN TrimStart(Tail(s)) ELSE s
RECURSIVE TrimEnd(_)
TrimEnd(s) ==
    IF s # << >> /\ s[Len(s)] = " " THEN TrimEnd(Front(s)) ELSE s
\* String.prototype.trim()
Trim(s) == TrimEnd(TrimStart(s))

\* term.startsWith('cs.')
StartsWithCs(term) == term # << >> /\ Head(term) = "cs."

\* optional chaining with `|| ''` : node?.textContent || ''
TextOrEmpty(node) == IF node = None THEN << >> ELSE node[1]

(***************************************************************************)
(* Dates.  A date string is [form, y, t]: form "iso" / "long" / "year" are *)
(* strings new Date() parses, y the year it names and t its instant;       *)
(* form "invalid" ('' , 'Unknown date') gives an Invalid Date.             *)
(* "iso" is a timestamp with Z away from the turn of the year and          *)
(* "iso-newyear" one in the first hours of 1 January UTC; "year" ('2024')  *)
(* is a date-only form, read as 1 January 00:00 UTC; "long" ('January 1,   *)
(* 2024') is read as local time.                                           *)
(***************************************************************************)
\* the zones a page is viewed in: at UTC, and five hours behind it
TimeZones == {"UTC", "America/New_York"}

\* the calendar year before y
YearBefore(y) ==
    CASE y = "2025" -> "2024"
      [] y = "2024" -> "2023"
      [] y = "2023" -> "2022"
      [] OTHER -> "NaN"

InvalidDate == [form |-> "invalid", y |-> "NaN", t |-> 0]
DateStr(form, y, t) == [form |-> form, y |-> y, t |-> t]

\* new Date(published).getFullYear()
\* the local year: an instant in the first hours of 1 January UTC lies in
\* the year before for a zone behind UTC
getFullYear(published) ==
    IF published.form = "invalid" THEN "NaN"
    ELSE IF published.form \in {"year", "iso-newyear"}
            /\ timeZone = "America/New_York"
    THEN YearBefore(published.y)
    ELSE published.y

(***************************************************************************)
(* The Response Normalizer, src/unnamed/part_000:155-196.                  *)
(* A body (response text) is [empty, hasError, parsererror, entries]:      *)
(* empty: the text is ''; hasError: the text includes 'Error' or 'error';  *)
(* parsererror: DOMParser reports a parsererror; entries: the <entry>      *)
(* elements of the parsed document, in document order.                     *)
(***************************************************************************)
Body(empty, hasError, parsererror, entries) ==
    [empty |-> empty, hasError |-> hasError, parsererror |-> parsererror,
     entries |-> entries]

\* entry.querySelector('id')?.textContent.split('/').pop() || ''
EntryIdFirst(entry) ==
    IF entry.id = None THEN << >> ELSE Shift(Split(entry.id[1], "/"))
EntryId(entry) ==
    IF entry.id = None THEN << >> ELSE Pop(Split(entry.id[1], "/"))

\* .map(cat => cat.getAttribute('term')).filter(term => term.startsWith('cs.'))
\* getAttribute gives null for a category without term: null.startsWith throws
CategoriesThrow(entry) ==
    \E k \in 1..Len(entry.categories) : entry.categories[k] = None

CategoriesOf(entry) ==
    LET terms == [k \in 1..Len(entry.categories) |-> entry.categories[k][1]]
    IN  SelectSeq(terms, StartsWithCs)

AuthorsOf(entry) ==
    [k \in 1..Len(entry.authors) |->
        [name |-> TextOrEmpty(entry.authors[k]), affiliation |-> << >>]]

\* entry.querySelector('link[title="pdf"]')?.getAttribute('href') || ''
PdfLinkOf(entry) ==
    LET pdf == SelectSeq(entry.links, LAMBDA l : l.title = Some("pdf"))
    IN  IF pdf = << >> THEN << >> ELSE TextOrEmpty(pdf[1].href)

PaperOfEntry(entry) ==
    [id |-> EntryId(entry),
     title |-> Trim(TextOrEmpty(entry.title)),
     published |-> IF entry.published = None THEN InvalidDate
                   ELSE entry.published[1],
     updated |-> IF entry.updated = None THEN InvalidDate
                 ELSE entry.updated[1],
     summary |-> Trim(TextOrEmpty(entry.summary)),
     categories |-> CategoriesOf(entry),
     authors |-> AuthorsOf(entry),
     pdfLink |-> PdfLinkOf(entry)]

Returned(v) == [error |-> None, value |-> v]
Thrown(msg) == [error |-> Some(msg), value |-> << >>]

\* entries.forEach(entry => papers.push({...})); return papers
parseArxivResponse(text) ==
    IF \E k \in 1..Len(text.entries) : CategoriesThrow(text.entries[k])
    THEN Thrown("TypeError")
    ELSE Returned([k \in 1..Len(text.entries) |->
                      PaperOfEntry(text.entries[k])])


(***************************************************************************)
(* The environment of a page load.                                         *)
(***************************************************************************)
\* const proxies = [ codetabs, corsproxy, allorigins ]
NumProxies == 3
Proxies == 1..NumProxies

DateOld == DateStr("iso", "2024", 1)
DateMid == DateStr("iso", "2024", 2)
DateNew == DateStr("iso", "2025", 3)
DateLong == DateStr("long", "2024", 1)
DateYear == DateStr("year", "2024", 1)

CsLG == <<"cs.", "LG">>
CsAI == <<"cs.", "AI">>
CsRO == <<"cs.", "RO">>
MathCO == <<"math.", "CO">>
All == <<"all">>
\* the data-category values of the navigation links that are clicked
NavCategories == {All, CsAI, CsRO}

JohnDoe == <<"John", " ", "Doe">>
JaneSmith == <<"Jane", " ", "Smith">>
AliceJohnson == <<"Alice", " ", "Johnson">>
BobWilson == <<"Bob", " ", "Wilson">>
CarolBrown == <<"Carol", " ", "Brown">>

AbsUrl(last) == <<"http:", "/", "/", "arxiv.org", "/", "abs", "/">> \o last
PdfUrl(id) == <<"https:", "/", "/", "arxiv.org", "/", "pdf", "/">> \o id \o <<".pdf">>

Link(title, type, href) == [title |-> title, type |-> type, href |-> href]

EntryOne ==
    [id |-> Some(AbsUrl(<<"2401.00001v1">>)),
     title |-> Some(<<" ", "Paper One", " ">>),
     published |-> Some(DateOld), updated |-> Some(DateMid),
     summary |-> Some(<<"Summary one">>),
     categories |-> <<Some(CsAI), Some(MathCO)>>,
     authors |-> <<Some(AliceJohnson)>>,
     links |-> <<Link(None, Some("text/html"), Some(AbsUrl(<<"2401.00001v1">>))),
                 Link(Some("pdf"), Some("application/pdf"),
                      Some(PdfUrl(<<"2401.00001v1">>)))>>]

EntryTwo ==
    [id |-> Some(AbsUrl(<<"2401.00002v2">>)),
     title |-> Some(<<"Paper Two">>),
     published |-> Some(DateNew), updated |-> Some(DateNew),
     summary |-> Some(<<"Summary two">>),
     categories |-> <<Some(CsLG)>>,
     authors |-> <<Some(BobWilson), Some(CarolBrown)>>,
     links |-> << >>]

\* an entry with a <category> that has no term attribute
EntryNoTerm == [EntryOne EXCEPT !.categories = <<Some(CsLG), None>>]

\* an entry without <published>
EntryUndated ==
    [EntryTwo EXCEPT !.id = Some(AbsUrl(<<"2401.00003v1">>)),
                     !.title = Some(<<"Paper Three">>),
                     !.published = None,
                     !.categories = <<Some(CsAI)>>]

BodyEmpty == Body(TRUE, FALSE, TRUE, << >>)
\* a proxy's error page: not XML, and it says 'error'
BodyErrorPage == Body(FALSE, TRUE, TRUE, << >>)
\* not XML; the parser salvaged nothing
BodyGarbage == Body(FALSE, FALSE, TRUE, << >>)
\* XML cut short: a parsererror beside the entry parsed before it
BodyTruncated == Body(FALSE, FALSE, TRUE, <<EntryOne>>)
BodyFeedEmpty == Body(FALSE, FALSE, FALSE, << >>)
BodyFeedOne == Body(FALSE, FALSE, FALSE, <<EntryTwo>>)
BodyFeedTwo == Body(FALSE, FALSE, FALSE, <<EntryOne, EntryTwo>>)
\* a well-formed feed whose text has the word 'error' in it
BodyFeedErrorWord == Body(FALSE, TRUE, FALSE, <<EntryOne>>)
BodyFeedNoTerm == Body(FALSE, FALSE, FALSE, <<EntryNoTerm>>)
\* a feed whose second entry has no date, between two entries of different
\* dates
BodyFeedUndated == Body(FALSE, FALSE, FALSE, <<EntryOne, EntryUndated, EntryTwo>>)

Bodies == {BodyEmpty, BodyErrorPage, BodyGarbage, BodyTruncated, BodyFeedEmpty,
           BodyFeedOne, BodyFeedTwo, BodyFeedErrorWord, BodyFeedNoTerm,
           BodyFeedUndated}

\* how one intermediary answers a request: fetch rejects ("throw"), never
\* settles ("never"), resolves with !response.ok ("status") or with
\* response.ok and a body ("ok")
Answer(kind, body) == [kind |-> kind, body |-> body]
Outcomes == {Answer("throw", BodyEmpty), Answer("never", BodyEmpty),
             Answer("status", BodyErrorPage)}
            \cup {Answer("ok", b) : b \in Bodies}

IdA == <<"2401.12345">>
IdB == <<"2401.12346">>
IdC == <<"2401.12347">>
IdX == <<"2402.00001">>
IdU == <<"9999.99999">>
\* an id that names a member every object inherits from Object.prototype
IdConstructor == <<"constructor">>
ObjectPrototypeKeys == {IdConstructor}
\* the ?id= values a detail page is opened with (None: no id parameter)
PaperIds == {None, Some(IdA), Some(IdB), Some(IdX), Some(IdU), Some(IdConstructor)}


(***************************************************************************)
(* The Fallback Data Provider: data/sample-papers.json as the environment  *)
(* serves it, and the literals of the two pages.                           *)
(***************************************************************************)
JsonPaper(id, title, authors, published, categories) ==
    [id |-> id, title |-> title, authors |-> authors, published |-> published,
     summary |-> <<"Summary of ">> \o title, categories |-> categories,
     pdfLink |-> PdfUrl(id)]

JsonPaperX == JsonPaper(IdX, <<"Dataset Paper X">>, <<AliceJohnson>>,
                        DateStr("long", "2024", 1), <<CsRO>>)
JsonPaperA == JsonPaper(IdA, <<"Dataset Paper A">>, <<JohnDoe, JaneSmith>>,
                        DateStr("long", "2024", 2), <<CsLG, CsAI>>)
JsonDefault == JsonPaper(<<"default">>, <<"Default Sample Paper">>,
                         <<BobWilson, CarolBrown, AliceJohnson>>,
                         DateStr("long", "2023", 0), <<CsLG>>)

\* what `await response.json()` of the static asset gives: None when the
\* fetch fails, the status is not ok or the text is not the expected JSON;
\* else samplePapers in file order and defaultSamplePaper, if the file has one
JsonFile(samplePapers, defaultSamplePaper) ==
    [samplePapers |-> samplePapers, defaultSamplePaper |-> defaultSamplePaper]
SampleFiles ==
    {None,
     Some(JsonFile(<<JsonPaperX, JsonPaperA>>, Some(JsonDefault))),
     Some(JsonFile(<<JsonPaperX>>, Some(JsonDefault))),
     Some(JsonFile(<<JsonPaperX, JsonPaperA>>, None))}

\* new Date(paper.published).toISOString(): a RangeError for an Invalid Date
ToISOString(published) == [published EXCEPT !.form = "iso"]

\* the literal of getSamplePapers's catch, src/unnamed/part_000:302-316
HardcodedList ==
    <<[id |-> IdA,
       title |-> <<"Sample Paper: Advances in Machine Learning">>,
       published |-> DateStr("iso", "2024", 1),
       updated |-> DateStr("iso", "2024", 1),
       summary |-> <<"This is a sample paper">>,
       categories |-> <<CsLG, CsAI>>,
       authors |-> <<[name |-> JohnDoe, affiliation |-> <<"University of Example">>],
                     [name |-> JaneSmith, affiliation |-> <<"Tech Institute">>]>>,
       pdfLink |-> PdfUrl(IdA)]>>

\* Object.values(data.samplePapers).map(paper => ({...}))
SamplePaperOf(paper) ==
    [id |-> paper.id, title |-> paper.title,
     published |-> ToISOString(paper.published),
     updated |-> ToISOString(paper.published),
     summary |-> paper.summary, categories |-> paper.categories,
     authors |-> [k \in 1..Len(paper.authors) |->
                     [name |-> paper.authors[k], affiliation |-> << >>]],
     pdfLink |-> paper.pdfLink]

\* getSamplePapers(), src/unnamed/part_000:278-318, given what the asset yields
getSamplePapers(file) ==
    IF file = None
       \/ \E k \in 1..Len(file[1].samplePapers) :
             file[1].samplePapers[k].published.form = "invalid"
    THEN HardcodedList
    ELSE [k \in 1..Len(file[1].samplePapers) |->
             SamplePaperOf(file[1].samplePapers[k])]

(***************************************************************************)
(* The list page: rendering, src/unnamed/part_000:198-276.                 *)
(* #papers-container holds one innerHTML: [view, items, notice].           *)
(***************************************************************************)
Range(seq) == {seq[k] : k \in 1..Len(seq)}

Html(view, items, notice) == [view |-> view, items |-> items, notice |-> notice]
InitialHtml == Html("initial", << >>, << >>)

\* currentCategory === 'all' ? papers
\*     : papers.filter(paper => paper.categories.includes(currentCategory))
FilteredPapersFirstOnly(papers, category) ==
    IF category = All THEN papers
    ELSE SelectSeq(papers, LAMBDA paper : paper.categories # << >>
                                          /\ paper.categories[1] = category)
FilteredPapers(papers, category) ==
    IF category = All THEN papers
    ELSE SelectSeq(papers, LAMBDA paper : category \in Range(paper.categories))

\* (a, b) => new Date(b.published) - new Date(a.published); NaN counts as 0
CompareFn(a, b) ==
    IF a.published.form = "invalid" \/ b.published.form = "invalid" THEN 0
    ELSE b.published.t - a.published.t

RECURSIVE InsertSorted(_, _)
InsertSorted(sorted, x) ==
    IF sorted # << >> /\ CompareFn(sorted[Len(sorted)], x) > 0
    THEN Append(InsertSorted(Front(sorted), x), sorted[Len(sorted)])
    ELSE Append(sorted, x)

RECURSIVE StableSort(_)
\* the order a sort leaves under a consistent comparator: stable, newest
\* first
StableSort(papers) ==
    IF papers = << >> THEN << >>
    ELSE InsertSorted(StableSort(Front(papers)), papers[Len(papers)])

\* CompareFn is a consistent comparator for the elements of papers.  It is
\* not when an unparsable date, equal to every date, stands among dates
\* that differ.
ConsistentComparator(papers) ==
    LET cmp(a, b) == CompareFn(papers[a], papers[b]) IN
    \A a, b, c \in 1..Len(papers) :
        /\ (cmp(a, b) = 0 /\ cmp(b, c) = 0) => cmp(a, c) = 0
        /\ (cmp(a, b) < 0 /\ cmp(b, c) < 0) => cmp(a, c) < 0
        /\ (cmp(a, b) > 0 /\ cmp(b, c) > 0) => cmp(a, c) > 0

Orderings(papers) ==
    LET n == Len(papers) IN
    {[k \in 1..n |-> papers[f[k]]] :
        f \in {g \in [1..n -> 1..n] : \A x, y \in 1..n : g[x] = g[y] => x = y}}

\* Array.prototype.sort with CompareFn, the orders it can leave: the stable
\* order, or an implementation-defined one when the comparator is not
\* consistent
SortPapers(papers) ==
    IF ConsistentComparator(papers) THEN {StableSort(papers)}
    ELSE Orderings(papers)

\* one <div class="paper-item">
PaperItem(paper) ==
    [id |-> paper.id, title |-> paper.title, time |-> paper.published.t,
     categories |-> paper.categories]

\* renderPaperList(papers) with currentCategory = category, its outcomes:
\* html is container.innerHTML and papers the array `papers` afterwards.
\* With 'all' selected filteredPapers is `papers` itself, which the sort
\* reorders in place.
renderPaperList(papers, category) ==
    LET filteredPapers == FilteredPapers(papers, category) IN
    IF filteredPapers = << >>
    THEN {[papers |-> papers, html |-> Html("no-papers", << >>, << >>)]}
    ELSE {[papers |-> IF category = All THEN sorted ELSE papers,
           html |-> Html("list", [k \in 1..Len(sorted) |-> PaperItem(sorted[k])],
                         << >>)] :
             sorted \in SortPapers(filteredPapers)}

\* showError(message): container.innerHTML = <p class="error-message">
ErrorHtml(message) == Html("error", << >>, message)

ProxiesUnavailable == <<"Using sample data: ", "API proxies unavailable">>
ErrorMessage(msg) == <<"Using sample data: ", msg>>


(***************************************************************************)
(* The proxy loop, common to both pages: `for (let i = 0; ...; i++)`.      *)
(***************************************************************************)
\* !data : undefined or ''
Falsy(d) == d = None \/ d[1].empty

\* i++ : the index of the next intermediary
NextIndexSkip(k) == k + 2
NextIndex(k) == k + 1

\* i < proxies.length, for the 1-based index k
InRange(k) == k <= NumProxies

\* lastError = new Error(`Proxy ${i + 1} failed with status ...`) / = error
ErrorOf(k, kind) == Some([proxy |-> k, kind |-> kind])

Unread == [fetched |-> FALSE, json |-> None]
Read(file) == [fetched |-> TRUE, json |-> file]

(***************************************************************************)
(* loadPapersForToday, src/unnamed/part_000:67-153.  One action per run of *)
(* the function between two awaits.                                        *)
(***************************************************************************)
listFrame == <<page, outcome, paperId, detail, cite, clipboard, xmlText, parsed,
               timeZone>>

\* DOMContentLoaded: showLoadingIndicator(true), then the first fetch
LoadPapersForToday ==
    /\ page = "list" /\ pc = "start"
    /\ loading' = TRUE
    /\ i' = 1
    /\ requests' = <<1>>
    /\ pc' = "fetch"
    /\ UNCHANGED <<data, lastError, caught, currentCategory, papersData,
                   container, sampleFile>>
    /\ UNCHANGED listFrame

\* lines 127-152 once the loop is left with `data` = d
ListAfterLoop(d) ==
    IF Falsy(d)
    THEN /\ pc' = "sample"
         /\ caught' = None
         /\ UNCHANGED <<papersData, container, loading>>
    ELSE LET r == parseArxivResponse(d[1]) IN
         IF r.error # None
         THEN /\ pc' = "sample"
              /\ caught' = r.error
              /\ UNCHANGED <<papersData, container, loading>>
         ELSE /\ \E rendered \in renderPaperList(r.value, currentCategory) :
                    /\ papersData' = rendered.papers
                    /\ container' = rendered.html
              /\ loading' = FALSE
              /\ caught' = None
              /\ pc' = "done"

\* await fetch(proxyUrl) settles with response.ok: response.text() is
\* called and awaited, lines 106-114
ListResponseOk ==
    /\ page = "list" /\ pc = "fetch"
    /\ outcome[i].kind = "ok"
    /\ pc' = "text"
    /\ UNCHANGED <<i, data, lastError, requests, caught, currentCategory,
                   papersData, container, loading, sampleFile>>
    /\ UNCHANGED listFrame

\* await response.text() settles: data = the text; break
ListAttemptOk ==
    /\ page = "list" /\ pc = "text"
    /\ outcome[i].kind = "ok"
    /\ data' = Some(outcome[i].body)
    /\ ListAfterLoop(Some(outcome[i].body))
    /\ UNCHANGED <<i, lastError, requests, currentCategory, sampleFile>>
    /\ UNCHANGED listFrame

\* !response.ok, or fetch threw: lastError is set and the loop goes on
ListAttemptFails ==
    /\ page = "list" /\ pc = "fetch"
    /\ outcome[i].kind \in {"status", "throw"}
    /\ lastError' = ErrorOf(i, outcome[i].kind)
    /\ i' = NextIndex(i)
    /\ IF InRange(NextIndex(i))
       THEN /\ requests' = Append(requests, NextIndex(i))
            /\ UNCHANGED <<pc, caught, papersData, container, loading>>
       ELSE /\ ListAfterLoop(data)
            /\ UNCHANGED requests
    /\ UNCHANGED <<data, currentCategory, sampleFile>>
    /\ UNCHANGED listFrame

\* getSamplePapers: await fetch('data/sample-papers.json') settles with
\* response.ok, response.json() is called and awaited, lines 280-284
ListSampleResponseOk ==
    /\ page = "list" /\ pc = "sample"
    /\ pc' = "json"
    /\ UNCHANGED <<i, data, lastError, requests, caught, currentCategory,
                   papersData, container, loading, sampleFile>>
    /\ UNCHANGED listFrame

\* getSamplePapers() settles: lines 130-133 or 146-149, then finally.
\* At "sample" the fetch of the asset threw or was not ok (file None); at
\* "json" response.json() yields the file, or rejects (file None).
\* renderPaperList(papersData) sets the container's innerHTML and showError
\* sets it again: the error message is what stays.
ListSampleSettles ==
    /\ page = "list" /\ pc \in {"sample", "json"}
    /\ \E file \in IF pc = "sample" THEN {None} ELSE SampleFiles :
          LET samples == getSamplePapers(file) IN
          /\ sampleFile' = Read(file)
          /\ \E rendered \in renderPaperList(samples, currentCategory) :
                papersData' = rendered.papers
          /\ container' = ErrorHtml(IF caught = None THEN ProxiesUnavailable
                                    ELSE ErrorMessage(caught[1]))
    /\ loading' = FALSE
    /\ pc' = "done"
    /\ UNCHANGED <<i, data, lastError, requests, caught, currentCategory>>
    /\ UNCHANGED listFrame

\* a click on a navigation link: filterByCategory(category), lines 228-241
FilterByCategory ==
    /\ page = "list" /\ pc # "start"
    /\ \E category \in NavCategories :
          /\ currentCategory' = category
          /\ \E rendered \in renderPaperList(papersData, category) :
                /\ papersData' = rendered.papers
                /\ container' = rendered.html
    /\ UNCHANGED <<pc, i, data, lastError, requests, caught, loading, sampleFile>>
    /\ UNCHANGED listFrame


(***************************************************************************)
(* The detail page, src/output/js/detail.js.                               *)
(* #paper-detail is [view, paper]: view "initial", "no-id", "paper" (live  *)
(* data) or "sample" (fallback data, with the sample-data note).           *)
(***************************************************************************)
DetailPaper(title, authors, published, summary, pdfLink) ==
    [title |-> title, authors |-> authors, published |-> published,
     summary |-> summary, pdfLink |-> pdfLink]

DetailHtml(view, paper) == [view |-> view, paper |-> paper]

\* the literals of displaySamplePaperDetails's catch, lines 180-210
HardcodedA == DetailPaper(<<"Sample Paper: Advances in Machine Learning">>,
                          <<JohnDoe, JaneSmith>>, DateLong,
                          <<"This is a sample paper">>, PdfUrl(IdA))
HardcodedB == DetailPaper(<<"Sample Paper: Computer Vision Applications">>,
                          <<AliceJohnson>>, DateLong,
                          <<"Exploring recent developments">>, PdfUrl(IdB))
HardcodedC == DetailPaper(<<"Sample Paper: Natural Language Processing Trends">>,
                          <<BobWilson, CarolBrown>>, DateLong,
                          <<"Analysis of current trends">>, PdfUrl(IdC))
HardcodedGeneric == DetailPaper(<<"Sample Paper">>, <<<<"Sample", " ", "Author">>>>,
                                DateYear, <<"This is a sample paper demonstrating">>,
                                <<"https:", "/", "/", "arxiv.org", "/", "abs", "/",
                                  "2401.00001">>)

\* a `paper` whose authors is undefined: the inherited member obj[id] itself
\* (line 204), or the fields read off it (lines 159-166)
NoRecord == None

\* hardcodedSamplePapers[id] || { title: 'Sample Paper', ... }: a property
\* lookup, which also finds the members the object inherits
HardcodedPaper(id) ==
    IF id = IdA THEN Some(HardcodedA)
    ELSE IF id = IdB THEN Some(HardcodedB)
    ELSE IF id = IdC THEN Some(HardcodedC)
    ELSE IF id \in ObjectPrototypeKeys THEN NoRecord
    ELSE Some(HardcodedGeneric)

JsonDetail(paper) ==
    DetailPaper(paper.title, paper.authors, paper.published, paper.summary,
                paper.pdfLink)

\* `paper` of displaySamplePaperDetails(id) after lines 148-211, given what
\* the asset yields.  data.samplePapers[id] is truthy for a key of the file
\* and for an inherited member; reading .title of a missing
\* defaultSamplePaper throws into the catch
SamplePaperFor(id, file) ==
    IF file = None THEN HardcodedPaper(id)
    ELSE LET hits == SelectSeq(file[1].samplePapers, LAMBDA paper : paper.id = id)
         IN  IF hits # << >> THEN Some(JsonDetail(hits[1]))
             ELSE IF id \in ObjectPrototypeKeys THEN NoRecord
             ELSE IF file[1].defaultSamplePaper # None
             THEN Some(JsonDetail(file[1].defaultSamplePaper[1]))
             ELSE HardcodedPaper(id)

\* new Date(published).toLocaleDateString(): the date in local time
ToLocaleDateString(published) ==
    IF published.form = "invalid" THEN InvalidDate
    ELSE [form |-> "locale", y |-> getFullYear(published), t |-> published.t]

\* node?.textContent || fallback
TextOr(node, fallback) ==
    IF node = None \/ node[1] = << >> THEN fallback ELSE node[1]

\* lines 99-110: the first link with title 'pdf' or type 'application/pdf'
DetailPdfLink(entry, id) ==
    LET pdf == SelectSeq(entry.links,
                         LAMBDA l : l.title = Some("pdf")
                                    \/ l.type = Some("application/pdf"))
        href == IF pdf = << >> THEN << >> ELSE TextOrEmpty(pdf[1].href)
    IN  IF href = << >> THEN PdfUrl(id) ELSE href

EntryTitle(entry) == TextOr(entry.title, <<"No title">>)
EntryAuthors(entry) ==
    [k \in 1..Len(entry.authors) |-> TextOr(entry.authors[k], <<"Unknown author">>)]
\* 'Unknown date' is no date
EntryPublished(entry) ==
    IF entry.published = None THEN InvalidDate ELSE entry.published[1]

\* what setupCitationButtons(id, title, authors, published) captures
Captured(id, title, authors, published) ==
    Some([id |-> id, title |-> title, authors |-> authors, published |-> published])

detailFrame == <<page, outcome, paperId, currentCategory, papersData, container,
                 loading, clipboard, xmlText, parsed, timeZone>>

\* DOMContentLoaded without ?id= : lines 5-8
PaperIdNotProvided ==
    /\ page = "detail" /\ pc = "start"
    /\ paperId = None
    /\ detail' = DetailHtml("no-id", None)
    /\ pc' = "done"
    /\ UNCHANGED <<i, data, lastError, requests, caught, cite, sampleFile>>
    /\ UNCHANGED detailFrame

\* DOMContentLoaded: fetchPaperDetails(paperId) up to its first fetch
FetchPaperDetails ==
    /\ page = "detail" /\ pc = "start"
    /\ paperId # None
    /\ i' = 1
    /\ requests' = <<1>>
    /\ pc' = "fetch"
    /\ UNCHANGED <<data, lastError, caught, detail, cite, sampleFile>>
    /\ UNCHANGED detailFrame

\* lines 68-129 once the loop is left with `data` = d
DetailAfterLoop(d) ==
    IF Falsy(d)
    THEN /\ pc' = "sample"
         /\ caught' = None
         /\ UNCHANGED <<detail, cite>>
    ELSE IF d[1].parsererror
    THEN /\ pc' = "sample"
         /\ caught' = Some("Invalid XML response")
         /\ UNCHANGED <<detail, cite>>
    ELSE IF d[1].entries = << >>
    THEN /\ pc' = "sample"
         /\ caught' = Some("Paper not found in API response")
         /\ UNCHANGED <<detail, cite>>
    ELSE LET entry == d[1].entries[1] IN
         /\ detail' = DetailHtml("paper", Some(DetailPaper(
                          EntryTitle(entry), EntryAuthors(entry),
                          ToLocaleDateString(EntryPublished(entry)),
                          TextOr(entry.summary, <<"No summary available">>),
                          DetailPdfLink(entry, paperId[1]))))
         /\ cite' = Captured(paperId[1], EntryTitle(entry), EntryAuthors(entry),
                             EntryPublished(entry))
         /\ caught' = None
         /\ pc' = "done"

\* await fetch(proxyUrl, ...) settles with response.ok: response.text() is
\* called and awaited, lines 34-48
DetailResponseOk ==
    /\ page = "detail" /\ pc = "fetch"
    /\ outcome[i].kind = "ok"
    /\ pc' = "text"
    /\ UNCHANGED <<i, data, lastError, requests, caught, detail, cite, sampleFile>>
    /\ UNCHANGED detailFrame

\* await response.text() settles and the text has no 'Error'/'error': break
DetailAttemptOk ==
    /\ page = "detail" /\ pc = "text"
    /\ outcome[i].kind = "ok" /\ ~outcome[i].body.hasError
    /\ data' = Some(outcome[i].body)
    /\ DetailAfterLoop(Some(outcome[i].body))
    /\ UNCHANGED <<i, lastError, requests, sampleFile>>
    /\ UNCHANGED detailFrame

\* the loop goes on with the next intermediary, or is left at the last one
DetailLoopGoesOn(d) ==
    /\ i' = NextIndex(i)
    /\ IF InRange(NextIndex(i))
       THEN /\ requests' = Append(requests, NextIndex(i))
            /\ pc' = "fetch"
            /\ UNCHANGED <<caught, detail, cite>>
       ELSE /\ DetailAfterLoop(d)
            /\ UNCHANGED requests

\* await response.text() settles, data is assigned, and the text has
\* 'Error'/'error': continue
DetailAttemptErrorBody ==
    /\ page = "detail" /\ pc = "text"
    /\ outcome[i].kind = "ok" /\ outcome[i].body.hasError
    /\ data' = Some(outcome[i].body)
    /\ DetailLoopGoesOn(Some(outcome[i].body))
    /\ UNCHANGED <<lastError, sampleFile>>
    /\ UNCHANGED detailFrame

\* !response.ok, or fetch threw
DetailAttemptFails ==
    /\ page = "detail" /\ pc = "fetch"
    /\ outcome[i].kind \in {"status", "throw"}
    /\ lastError' = ErrorOf(i, outcome[i].kind)
    /\ DetailLoopGoesOn(data)
    /\ UNCHANGED <<data, sampleFile>>
    /\ UNCHANGED detailFrame

\* displaySamplePaperDetails: await fetch('data/sample-papers.json') settles
\* with response.ok, response.json() is called and awaited, lines 152-156
DetailSampleResponseOk ==
    /\ page = "detail" /\ pc = "sample"
    /\ pc' = "json"
    /\ UNCHANGED <<i, data, lastError, requests, caught, detail, cite, sampleFile>>
    /\ UNCHANGED detailFrame

\* displaySamplePaperDetails(id) settles.  At "sample" the fetch of the asset
\* threw or was not ok (file None); at "json" response.json() yields the
\* file, or rejects (file None).  paper.authors.join (line 216) throws for a
\* paper without authors, outside the function's try: the call of line 72
\* (in fetchPaperDetails's try, caught = None) rejects into the catch, which
\* calls displaySamplePaperDetails again (line 128); that call rejecting,
\* fetchPaperDetails rejects.
DisplaySamplePaperDetails ==
    /\ page = "detail" /\ pc \in {"sample", "json"}
    /\ \E file \in IF pc = "sample" THEN {None} ELSE SampleFiles :
          LET paper == SamplePaperFor(paperId[1], file) IN
          /\ sampleFile' = Read(file)
          /\ IF paper = NoRecord
             THEN /\ UNCHANGED <<detail, cite>>
                  /\ IF caught = None
                     THEN /\ caught' = Some("TypeError")
                          /\ pc' = "sample"
                     ELSE /\ UNCHANGED caught
                          /\ pc' = "failed"
             ELSE /\ detail' = DetailHtml("sample", paper)
                  /\ cite' = Captured(paperId[1], paper[1].title, paper[1].authors,
                                      paper[1].published)
                  /\ UNCHANGED caught
                  /\ pc' = "done"
    /\ UNCHANGED <<i, data, lastError, requests>>
    /\ UNCHANGED detailFrame


(***************************************************************************)
(* The citation generators, src/output/js/detail.js:233-273.  A generated  *)
(* text is the record of what fills the holes of its template.             *)
(***************************************************************************)
\* name => { parts = name.split(' '); `${parts.pop()}, ${parts.join(' ')}` }
BibtexAuthor(name) ==
    LET parts == Split(name, " ")
    IN  Pop(parts) \o <<", ">> \o Join(Front(parts), <<" ">>)

generateBibtex(id, title, authors, published) ==
    [format |-> "bibtex", key |-> id, title |-> title,
     author |-> Join([k \in 1..Len(authors) |-> BibtexAuthor(authors[k])],
                     <<" and ">>),
     year |-> getFullYear(published)]

\* authors.pop() when authors.length > 1: the array the buttons share
AuthorsAfterCitation(authors) ==
    IF Len(authors) > 1 THEN Front(authors) ELSE authors

generateStandardCitation(title, authors, published) ==
    [format |-> "standard", key |-> << >>, title |-> title,
     author |-> IF Len(authors) > 1
                THEN Join(Front(authors), <<", ">>) \o <<" and ">>
                     \o authors[Len(authors)]
                ELSE Join(authors, <<", ">>),
     year |-> getFullYear(published)]

citeFrame == <<page, outcome, sampleFile, paperId, pc, i, data, lastError,
               requests, caught, currentCategory, papersData, container,
               loading, detail, xmlText, parsed, timeZone>>

\* click on #bibtex-btn
ClickBibtex ==
    /\ page = "detail" /\ cite # None
    /\ Len(clipboard) < MaxClicks
    /\ clipboard' = Append(clipboard,
                           generateBibtex(cite[1].id, cite[1].title,
                                          cite[1].authors, cite[1].published))
    /\ UNCHANGED cite
    /\ UNCHANGED citeFrame

\* click on #citation-btn
ClickCitation ==
    /\ page = "detail" /\ cite # None
    /\ Len(clipboard) < MaxClicks
    /\ clipboard' = Append(clipboard,
                           generateStandardCitation(cite[1].title, cite[1].authors,
                                                    cite[1].published))
    /\ cite' = Some([cite[1] EXCEPT !.authors = AuthorsAfterCitation(@)])
    /\ UNCHANGED citeFrame

(***************************************************************************)
(* The page loads.                                                         *)
(***************************************************************************)
Init ==
    /\ page \in {"list", "detail"}
    /\ outcome \in [Proxies -> Outcomes]
    /\ paperId \in IF page = "detail" THEN PaperIds ELSE {None}
    /\ sampleFile = Unread
    /\ pc = "start"
    /\ i = 0
    /\ data = None
    /\ lastError = None
    /\ requests = << >>
    /\ caught = None
    /\ currentCategory = All
    /\ papersData = << >>
    /\ container = InitialHtml
    /\ loading = FALSE
    /\ detail = DetailHtml("initial", None)
    /\ cite = None
    /\ clipboard = << >>
    /\ xmlText = BodyEmpty
    /\ parsed = None
    /\ timeZone \in IF page = "detail" THEN TimeZones ELSE {"UTC"}

Next ==
    \/ LoadPapersForToday
    \/ ListResponseOk
    \/ ListAttemptOk
    \/ ListAttemptFails
    \/ ListSampleResponseOk
    \/ ListSampleSettles
    \/ FilterByCategory
    \/ PaperIdNotProvided
    \/ FetchPaperDetails
    \/ DetailResponseOk
    \/ DetailAttemptOk
    \/ DetailAttemptErrorBody
    \/ DetailAttemptFails
    \/ DetailSampleResponseOk
    \/ DisplaySamplePaperDetails
    \/ ClickBibtex
    \/ ClickCitation

\* the steps the page takes by itself, as its awaits settle (no click)
Settle ==
    \/ ListResponseOk
    \/ ListAttemptOk
    \/ ListAttemptFails
    \/ ListSampleResponseOk
    \/ ListSampleSettles
    \/ DetailResponseOk
    \/ DetailAttemptOk
    \/ DetailAttemptErrorBody
    \/ DetailAttemptFails
    \/ DetailSampleResponseOk
    \/ DisplaySamplePaperDetails

Spec == Init /\ [][Next]_vars

(***************************************************************************)
(* A run of the normalizer alone, on a document drawn from EntryChoices.   *)
(***************************************************************************)
IdTexts == {None, Some(<< >>), Some(<<"2401.7">>), Some(AbsUrl(<<"2401.8v1">>)),
            Some(<<"abs", "/">>)}
CategoryLists == {<< >>, <<Some(MathCO)>>, <<Some(MathCO), Some(CsAI)>>,
                  <<Some(CsLG), None>>}
SparseEntry ==
    [id |-> None, title |-> None, published |-> None, updated |-> None,
     summary |-> None, categories |-> << >>, authors |-> <<None>>,
     links |-> <<Link(Some("pdf"), None, None)>>]
EntryChoices ==
    {[e EXCEPT !.id = idText, !.categories = cats] :
        e \in {EntryOne, SparseEntry}, idText \in IdTexts, cats \in CategoryLists}

RECURSIVE SeqsUpTo(_, _)
SeqsUpTo(S, n) ==
    IF n = 0 THEN {<< >>}
    ELSE LET shorter == SeqsUpTo(S, n - 1)
         IN  shorter \cup {Append(q, x) : q \in shorter, x \in S}

ParseInit ==
    /\ xmlText \in {Body(FALSE, FALSE, pe, es) :
                       pe \in BOOLEAN, es \in SeqsUpTo(EntryChoices, MaxEntries)}
    /\ parsed = None
    /\ page = "none"
    /\ outcome = [k \in Proxies |-> Answer("never", BodyEmpty)]
    /\ paperId = None
    /\ sampleFile = Unread
    /\ pc = "start"
    /\ i = 0
    /\ data = None
    /\ lastError = None
    /\ requests = << >>
    /\ caught = None
    /\ currentCategory = All
    /\ papersData = << >>
    /\ container = InitialHtml
    /\ loading = FALSE
    /\ detail = DetailHtml("initial", None)
    /\ cite = None
    /\ clipboard = << >>
    /\ timeZone = "UTC"

\* papers = parseArxivResponse(xmlText)
Normalize ==
    /\ parsed = None
    /\ parsed' = Some(parseArxivResponse(xmlText))
    /\ UNCHANGED xmlText
    /\ UNCHANGED pageVars

ParseNext == Normalize

ParseSpec == ParseInit /\ [][ParseNext]_vars

(***************************************************************************)
(* A run of the citation button alone: the detail page loads one paper,    *)
(* from the API with authors and a date drawn below or from the built-in   *)
(* samples, and the BibTeX button is clicked.                              *)
(***************************************************************************)
Plato == <<"Plato">>
GuidoVanRossum == <<"Guido", " ", "van", " ", "Rossum">>
CiteNames == {JohnDoe, JaneSmith, Plato, GuidoVanRossum}
\* '2024-01-15T10:00:00Z' and '2024-01-01T00:00:00Z'
DateNewYear == DateStr("iso-newyear", "2024", 1)
CiteDates == {Some(DateMid), Some(DateNewYear), None}

CiteEntry(authors, published) ==
    [EntryOne EXCEPT !.authors = [k \in 1..Len(authors) |-> Some(authors[k])],
                     !.published = published]
CiteEntries ==
    {CiteEntry(authors, published) :
        authors \in SeqsUpTo(CiteNames, MaxAuthors), published \in CiteDates}

CiteInit ==
    /\ page = "detail"
    /\ outcome \in {[k \in Proxies |-> Answer("ok", Body(FALSE, FALSE, FALSE, <<e>>))] :
                        e \in CiteEntries}
                  \cup {[k \in Proxies |-> Answer("throw", BodyEmpty)]}
    /\ paperId \in {Some(IdA), Some(IdU)}
    /\ timeZone \in TimeZones
    /\ sampleFile = Unread
    /\ pc = "start"
    /\ i = 0
    /\ data = None
    /\ lastError = None
    /\ requests = << >>
    /\ caught = None
    /\ currentCategory = All
    /\ papersData = << >>
    /\ container = InitialHtml
    /\ loading = FALSE
    /\ detail = DetailHtml("initial", None)
    /\ cite = None
    /\ clipboard = << >>
    /\ xmlText = BodyEmpty
    /\ parsed = None

CiteNext ==
    \/ FetchPaperDetails
    \/ DetailResponseOk
    \/ DetailAttemptOk
    \/ DetailAttemptFails
    \/ DetailSampleResponseOk
    \/ DisplaySamplePaperDetails
    \/ ClickBibtex
    \/ ClickCitation

CiteSpec == CiteInit /\ [][CiteNext]_vars


(***************************************************************************)
(* The claims.                                                             *)
(***************************************************************************)
\* a structurally valid, non-error body: not empty, parses as XML, and has
\* no 'Error'/'error' in it
ValidBody(b) == ~b.empty /\ ~b.parsererror /\ ~b.hasError
Accepts(k) == outcome[k].kind = "ok" /\ ValidBody(outcome[k].body)
FirstValid(k) == Accepts(k) /\ \A j \in 1..(k - 1) : ~Accepts(j)
\* the attempt at intermediary k was made and has settled
Settled(k) == k <= Len(requests) /\ ~(pc \in {"fetch", "text"} /\ i = k)
\* the proxy loop was entered and has been left
LoopLeft == requests # << >> /\ pc \in {"sample", "json", "done", "failed"}

\* C1: if intermediary k is the first to answer with a success status and a
\* structurally valid, non-error body, then no request goes to k+1 or later
\* and, once the loop is left, the payload handed on is k's body.
C1_FirstValidBodyIsThePayload ==
    \A k \in Proxies :
        FirstValid(k) =>
            /\ \A n \in 1..Len(requests) : requests[n] <= k
            /\ LoopLeft => data = Some(outcome[k].body)

IsPermutation(a, b) ==
    /\ Len(a) = Len(b)
    /\ \E f \in [1..Len(a) -> 1..Len(a)] :
          /\ \A m, n \in 1..Len(a) : m # n => f[m] # f[n]
          /\ \A n \in 1..Len(a) : a[n] = b[f[n]]

AllAttemptsFail == \A k \in Proxies : outcome[k].kind \in {"status", "throw"}

\* C2: when every attempt fails, the step that finishes loadPapersForToday
\* leaves papersData holding the records of getSamplePapers and the
\* container showing the rendering of those records together with the
\* substitute-data notice.
C2_FallbackRecordsShownWithNotice ==
    [][(page = "list" /\ AllAttemptsFail /\ pc \in {"sample", "json"}
          /\ pc' = "done") =>
          /\ IsPermutation(papersData', getSamplePapers(sampleFile'.json))
          /\ \E rendered \in renderPaperList(papersData', currentCategory') :
                container' = [rendered.html EXCEPT !.notice = ProxiesUnavailable]]_vars

\* C3: a settled attempt that had a success status and an empty, unparsable
\* or error-signalling body is followed by a request to the next
\* intermediary, when one remains.
C3_InvalidBodyTriesNextProxy ==
    \A k \in 1..(NumProxies - 1) :
        (Settled(k) /\ outcome[k].kind = "ok" /\ ~ValidBody(outcome[k].body))
            => k + 1 <= Len(requests)

\* C4: an invocation never waits without end: while the fetch function has
\* not finished, some step of it can settle.
C4_EveryAttemptSettles ==
    (page \in {"list", "detail"} /\ pc \in {"fetch", "text", "sample", "json"})
        => ENABLED Settle

FailedAttempt(k) == outcome[k].kind \in {"status", "throw"}

\* C5: requests go to the intermediaries in list order, one at a time and
\* each at most once, so never more than NumProxies; a settled attempt that
\* failed by status or by a thrown error is followed by the request to the
\* next intermediary when one exists; and when #1 and #2 fail so and #3
\* answers a valid document, three requests were made and #3's body is the
\* payload.
C5_FailuresMoveToTheNextInOrder ==
    /\ requests = [k \in 1..Len(requests) |-> k]
    /\ Len(requests) <= NumProxies
    /\ pc \in {"fetch", "text"} => i = Len(requests)
    /\ \A k \in 1..(NumProxies - 1) :
          (Settled(k) /\ FailedAttempt(k)) => k + 1 <= Len(requests)
    /\ \A k \in 2..Len(requests) : ~Accepts(k - 1)
    /\ (FailedAttempt(1) /\ FailedAttempt(2) /\ Accepts(3) /\ LoopLeft) =>
          /\ requests = <<1, 2, 3>>
          /\ data = Some(outcome[3].body)

C5_Witness ==
    /\ page = "detail" /\ pc = "done"
    /\ outcome[1].kind = "throw" /\ outcome[2].kind = "status"
    /\ outcome[3] = Answer("ok", BodyFeedOne)
    /\ requests = <<1, 2, 3>>
    /\ data = Some(BodyFeedOne)
    /\ detail.view = "paper"


\* the page's fallback lookup has shown a record for paperId
SampleShown == page = "detail" /\ detail.view = "sample"
DatasetReadable == sampleFile.json # None
DatasetHas(id) ==
    /\ DatasetReadable
    /\ \E k \in 1..Len(sampleFile.json[1].samplePapers) :
          sampleFile.json[1].samplePapers[k].id = id
DatasetDefault ==
    DatasetReadable /\ sampleFile.json[1].defaultSamplePaper # None
LiteralIds == {IdA, IdB, IdC}
ShownTitle == detail.paper[1].title
IndexInDataset(id) ==
    LET papers == sampleFile.json[1].samplePapers
    IN  CHOOSE k \in 1..Len(papers) : papers[k].id = id
\* the literal record keyed by id
LiteralTitle(id) ==
    IF id = IdA THEN <<"Sample Paper: Advances in Machine Learning">>
    ELSE IF id = IdB THEN <<"Sample Paper: Computer Vision Applications">>
    ELSE <<"Sample Paper: Natural Language Processing Trends">>

\* displaySamplePaperDetails has been called and fetchPaperDetails is over
FallbackOver == page = "detail" /\ sampleFile.fetched /\ pc \in {"done", "failed"}

\* C6: the fallback lookup always shows a record, never a not-found outcome:
\* the dataset record of the id if there is one; else the configured default
\* record; else the literal record of the id and, for an id that is no
\* literal's, the first literal record (2401.12345).
C6_FallsBackToFirstLiteral ==
    /\ FallbackOver => (SampleShown /\ detail.paper # None /\ cite # None)
    /\ SampleShown =>
        /\ detail.paper # None
        /\ LET id == paperId[1] IN
           IF DatasetHas(id)
           THEN detail.paper[1] = JsonDetail(
                    sampleFile.json[1].samplePapers[IndexInDataset(id)])
           ELSE IF DatasetDefault
           THEN detail.paper[1] = JsonDetail(JsonDefault)
           ELSE IF id \in LiteralIds
           THEN ShownTitle = LiteralTitle(id)
           ELSE /\ ShownTitle = LiteralTitle(IdA)
                /\ detail.paper[1].pdfLink = PdfUrl(IdA)

\* what the code does for an id that names no member of Object.prototype:
\* a record is always shown, and the chain ends with the generic 'Sample
\* Paper' literal by 'Sample Author'
FallbackOrderOfPlainIds ==
    /\ (FallbackOver /\ paperId[1] \notin ObjectPrototypeKeys) =>
          (SampleShown /\ detail.paper # None /\ cite # None)
    /\ SampleShown =>
        /\ detail.paper # None
        /\ LET id == paperId[1] IN
           IF DatasetHas(id)
           THEN detail.paper[1] = JsonDetail(
                    sampleFile.json[1].samplePapers[IndexInDataset(id)])
           ELSE IF DatasetDefault
           THEN detail.paper[1] = JsonDetail(JsonDefault)
           ELSE IF id \in LiteralIds
           THEN /\ ShownTitle = LiteralTitle(id)
                /\ detail.paper[1].pdfLink = PdfUrl(id)
           ELSE /\ ShownTitle = <<"Sample Paper">>
                /\ detail.paper[1].authors = <<<<"Sample", " ", "Author">>>>
                /\ detail.paper[1].pdfLink # PdfUrl(IdA)

\* what the code does for an id that names a member of Object.prototype:
\* nothing is shown and fetchPaperDetails rejects
InheritedIdShowsNothing ==
    (FallbackOver /\ paperId[1] \in ObjectPrototypeKeys) =>
        (pc = "failed" /\ detail.view = "initial" /\ cite = None)

\* C7: every text a citation button has copied is the text that button
\* gives for the authors the page displays (its first-click text), and the
\* author sequence the buttons captured is still that sequence.
C7_ClicksLeaveCitationsUnchanged ==
    (page = "detail" /\ cite # None) =>
        /\ cite[1].authors = detail.paper[1].authors
        /\ \A k \in 1..Len(clipboard) :
              clipboard[k] =
                 IF clipboard[k].format = "bibtex"
                 THEN generateBibtex(cite[1].id, cite[1].title,
                                     detail.paper[1].authors, cite[1].published)
                 ELSE generateStandardCitation(cite[1].title,
                                               detail.paper[1].authors,
                                               cite[1].published)

NoCsCategory(entry) ==
    \A k \in 1..Len(entry.categories) :
        entry.categories[k] = None \/ ~StartsWithCs(entry.categories[k][1])

\* C8: the normalizer raises for no entry, whichever optional element or
\* attribute is absent: it returns one record per entry, an absent id,
\* title, summary or pdf link is '' and an entry without a category in the
\* `cs.` namespace has no categories.
C8_NormalizerNeverRaises ==
    parsed # None =>
        /\ parsed[1].error = None
        /\ Len(parsed[1].value) = Len(xmlText.entries)
        /\ \A k \in 1..Len(xmlText.entries) :
              LET entry == xmlText.entries[k]
                  paper == parsed[1].value[k]
              IN  /\ entry.id = None => paper.id = << >>
                  /\ entry.title = None => paper.title = << >>
                  /\ entry.summary = None => paper.summary = << >>
                  /\ NoCsCategory(entry) => paper.categories = << >>

\* C9: in the list view a payload that does not parse as XML ends with the
\* fallback data loaded, not with the state a well-formed document without
\* entries gives.
C9_MalformedPayloadLoadsFallback ==
    (page = "list" /\ pc = "done" /\ data # None /\ data[1].parsererror) =>
        /\ sampleFile.fetched
        /\ container.view # "no-papers"

WellFormedEntry(entry) ==
    /\ entry.id # None
    /\ \A k \in 1..Len(entry.categories) : entry.categories[k] # None

\* seg is the text after the last "/" of url (all of url if it has none)
IsLastSegment(seg, url) ==
    /\ \A k \in 1..Len(seg) : seg[k] # "/"
    /\ Len(seg) <= Len(url)
    /\ SubSeq(url, Len(url) - Len(seg) + 1, Len(url)) = seg
    /\ Len(seg) < Len(url) => url[Len(url) - Len(seg)] = "/"

\* C10: for a document of N well-formed entries the normalizer returns N
\* records, the k-th with the last "/"-separated segment of the k-th
\* entry's identifier as its id.
C10_OneRecordPerEntryInOrder ==
    (parsed # None /\ \A k \in 1..Len(xmlText.entries) :
                          WellFormedEntry(xmlText.entries[k])) =>
        /\ parsed[1].error = None
        /\ Len(parsed[1].value) = Len(xmlText.entries)
        /\ \A k \in 1..Len(xmlText.entries) :
              IsLastSegment(parsed[1].value[k].id, xmlText.entries[k].id[1])

C10_Witness ==
    /\ parsed # None
    /\ Len(xmlText.entries) = 2
    /\ xmlText.entries[1].id = Some(AbsUrl(<<"2401.8v1">>))
    /\ xmlText.entries[2].id = Some(<<"2401.7">>)
    /\ WellFormedEntry(xmlText.entries[1]) /\ WellFormedEntry(xmlText.entries[2])
    /\ parsed[1].error = None
    /\ parsed[1].value[1].id = <<"2401.8v1">>
    /\ parsed[1].value[2].id = <<"2401.7">>


\* a step of filterByCategory: the only step of the list page that leaves
\* the fetch function where it is and issues no request
FilterStep == page = "list" /\ pc' = pc /\ i' = i /\ requests' = requests

\* the records the container displays
Displayed(html) == Range(html.items)
\* the loaded records that category selects
Selected(papers, category) ==
    {PaperItem(papers[k]) : k \in {n \in 1..Len(papers) :
        category = All \/ \E c \in 1..Len(papers[n].categories) :
                              papers[n].categories[c] = category}}

\* C11: filterByCategory(X) displays exactly the loaded records whose
\* categories contain X (all of them for 'all'), and filterByCategory(X)
\* called again on the state it leaves displays that same set and leaves
\* the same loaded records.
C11_FilteringIsIdempotent ==
    [][FilterStep =>
          /\ Displayed(container') = Selected(papersData, currentCategory')
          /\ Range(papersData') = Range(papersData)
          /\ \A again \in renderPaperList(papersData', currentCategory') :
                /\ Displayed(again.html) = Displayed(container')
                /\ Range(again.papers) = Range(papersData')]_vars

C11_Witness ==
    /\ page = "list" /\ pc = "done"
    /\ currentCategory = CsAI
    /\ Len(papersData) = 2
    /\ container.view = "list"
    /\ Len(container.items) = 1
    /\ \E k \in 1..2 : /\ Len(papersData[k].categories) = 2
                       /\ papersData[k].categories[2] = CsAI

\* the position of the last ' ' of a name, 0 when it has none
LastSpace(name) ==
    LET spaces == {k \in 1..Len(name) : name[k] = " "}
    IN  IF spaces = {} THEN 0 ELSE CHOOSE k \in spaces : \A n \in spaces : n <= k

\* 'Last, First': the last token, a comma, the tokens before it
LastFirst(name) ==
    SubSeq(name, LastSpace(name) + 1, Len(name)) \o <<", ">>
        \o SubSeq(name, 1, LastSpace(name) - 1)

RECURSIVE AuthorField(_)
AuthorField(authors) ==
    IF authors = << >> THEN << >>
    ELSE IF Len(authors) = 1 THEN LastFirst(authors[1])
    ELSE AuthorField(Front(authors)) \o <<" and ">> \o LastFirst(Pop(authors))

\* a click on #bibtex-btn: one more text is copied, and it is a BibTeX text
BibtexStep ==
    /\ cite # None
    /\ Len(clipboard') = Len(clipboard) + 1
    /\ clipboard'[Len(clipboard')].format = "bibtex"

\* the author field of the BibTeX text a click copies is 'Last, First' of
\* each author the generator is given, joined with ' and '
BibtexAuthorsAsGiven ==
    [][BibtexStep =>
          clipboard'[Len(clipboard')].author = AuthorField(cite[1].authors)]_vars

\* C12: the BibTeX text writes each author as the last token of the name, a
\* comma and the remaining tokens, joins the authors with ' and ', and has
\* year 2024 when the publication date is one of 2024 (authors John Doe and
\* Jane Smith give author={Doe, John and Smith, Jane}, year={2024}).
C12_BibtexAuthorsAndYear ==
    [][BibtexStep =>
          /\ clipboard'[Len(clipboard')].author = AuthorField(cite[1].authors)
          /\ (cite[1].published.form # "invalid" /\ cite[1].published.y = "2024")
                => clipboard'[Len(clipboard')].year = "2024"]_vars

\* intermediary k answers with a success status and a body holding 'Error'
\* or 'error', and every intermediary after it fails
RejectedThenFailures(k) ==
    /\ outcome[k].kind = "ok" /\ outcome[k].body.hasError
    /\ \A j \in (k + 1)..NumProxies : outcome[j].kind \in {"status", "throw"}

\* C13: in the detail fetch, when an attempt rejected its body as an
\* embedded-error response and every later intermediary failed (or none
\* remained), the loop ends in total failure: the rejected body is never
\* displayed as live data, and the page ends on the fallback record.
C13_RejectedBodyIsNeverThePayload ==
    (/\ page = "detail" /\ LoopLeft
     /\ \E k \in Proxies : k <= Len(requests) /\ RejectedThenFailures(k))
        => /\ detail.view # "paper"
           /\ pc = "done" => detail.view = "sample"

=============================================================================
